---- MODULE Spec2Model ----
(***************************************************************************)
(* A model of src/src/server.js: one Server instance (its handler table,   *)
(* its listener and its tracked connections), the requests it dispatches   *)
(* and the timers and continuations those requests leave pending.          *)
(***************************************************************************)
EXTENDS Integers, Sequences, FiniteSets, TLC

\* ------------------------------------------------------------------ bounds
\* Spec follows the requests of one started server.
MaxWills  == 2   \* register calls in one behaviour
MaxReqs   == 2   \* requests in one behaviour
MaxConns  == 1   \* connections accepted in one behaviour
MaxStops  == 1   \* stop calls in one behaviour
MaxStarts == 1   \* start calls in one behaviour
MaxAge    == 1   \* time units a pending request is followed for
\* SpecLifecycle follows starts, stops and connections, with few requests.
LifeWills  == 1
LifeReqs   == 1
LifeConns  == 2
LifeStops  == 2
LifeStarts == 2
LifeAge    == 2   \* time units a pending request is followed for
\* Both.
MaxSends  == 2   \* invocations of one request's body continuation
\* SpecFacade follows a facade and its two instances.
FacadeWills  == 1   \* register calls on the facade
FacadeStarts == 2   \* start calls on the facade
FacadeStops  == 2   \* stop calls on the facade
FacadeConns  == 2   \* connections accepted by both instances together
FacadeReqs   == 1   \* requests to both instances together

\* ------------------------------------------------------- JavaScript values
\* A value is a record of its kind and payload.  Text whose bytes are
\* measured (a body) carries its code points in data; text that is only
\* compared (a method, a path, a header value) carries it in str.
JsVal(k, n, s, d) == [kind |-> k, num |-> n, str |-> s, data |-> d]
Undefined     == JsVal("undefined", 0, "", <<>>)
Null          == JsVal("null", 0, "", <<>>)
Num(n)        == JsVal("number", n, "", <<>>)
Str(s)        == JsVal("string", 0, s, <<>>)
Text(cps)     == JsVal("string", 0, "", cps)
Buffer(bytes) == JsVal("buffer", 0, "", bytes)
Bool(b)       == JsVal("boolean", IF b THEN 1 ELSE 0, "", <<>>)
Fn(name, arity) == JsVal("function", arity, name, <<>>)

IsFunction(v) == v.kind = "function"
IsBuffer(v)   == v.kind = "buffer"

\* JavaScript truthiness, and the `v || d` of lines 70, 75, 90, 94, 127, 150.
Truthy(v) ==
    CASE v.kind \in {"undefined", "null"} -> FALSE
      [] v.kind \in {"number", "boolean"} -> v.num # 0
      [] v.kind = "string" -> ~(v.str = "" /\ v.data = <<>>)
      [] OTHER -> TRUE

OrElse(v, d) == IF Truthy(v) THEN v ELSE d

\* An object (a header map) is truthy; an absent one is Undefined.
IsObject(v) == DOMAIN v # DOMAIN Undefined
ObjectOrElse(v, d) == IF IsObject(v) THEN v ELSE OrElse(v, d)

\* String.prototype.toUpperCase on the method names the model registers.
ToUpperCase(s) ==
    CASE s = "get"  -> "GET"
      [] s = "post" -> "POST"
      [] s = "head" -> "HEAD"
      [] OTHER -> s

\* Bytes of one code point in UTF-8.
Utf8Width(cp) ==
    IF cp < 128 THEN 1 ELSE IF cp < 2048 THEN 2 ELSE IF cp < 65536 THEN 3 ELSE 4

RECURSIVE Utf8Length(_)
Utf8Length(cps) ==
    IF cps = <<>> THEN 0 ELSE Utf8Width(Head(cps)) + Utf8Length(Tail(cps))

\* line 122: the byte count of a buffer, the UTF-8 length of a string.
ByteLength(content) ==
    IF IsBuffer(content) THEN Len(content.data) ELSE Utf8Length(content.data)

\* line 121
EncodingOf(content) == IF IsBuffer(content) THEN Undefined ELSE Str("utf8")

\* ----------------------------------------------------------------- headers
\* A header object is a map over the header names the model uses; a name the
\* object does not hold maps to Undefined.
HeaderNames == {"content-type", "content-length", "x-a"}
NoHeaders   == [k \in HeaderNames |-> Undefined]
Has(obj, k) == obj[k] # Undefined

\* _.extend(dst, src): every key of src is copied over dst.
Extend(dst, src) == [k \in HeaderNames |-> IF Has(src, k) THEN src[k] ELSE dst[k]]

Header1(k, v) == [NoHeaders EXCEPT ![k] = v]

DefaultHeaders == Header1("content-type", Str("application/json"))
DefaultStatus  == 200
NotFoundStatus == 404
NotFoundLength == 9
\* "Not Found"
NotFoundBody == Text(<<78, 111, 116, 32, 70, 111, 117, 110, 100>>)
NotFoundHeaders ==
    [NoHeaders EXCEPT !["content-type"] = Str("plain/text"),
                      !["content-length"] = Num(NotFoundLength)]

\* lines 129-134: the keys whose value is not exactly null.
RemoveNull(headers) ==
    [k \in HeaderNames |-> IF headers[k] # Null THEN headers[k] ELSE Undefined]

\* lines 126-127: handler.reply.headers is extended in place with the computed
\* content-length and then with headersOverrides.
MergeHeadersLengthLast(headers, length, overrides) ==
    Extend(Extend(headers, ObjectOrElse(overrides, NoHeaders)),
           Header1("content-length", Num(length)))

MergeHeaders(headers, length, overrides) ==
    Extend(Extend(headers, Header1("content-length", Num(length))),
           ObjectOrElse(overrides, NoHeaders))

\* ---------------------------------------------------------------- handlers
\* The functions callers hand to the server: filters, body functions and
\* status functions, invoked at lines 109, 75 and 94.  A function of two
\* parameters (line 74) is an asynchronous body function: its continuation is
\* invoked by the caller's code (SendBody below).
CallFn(fn, req) ==
    CASE fn.str = "hasPayload" -> Bool(req.payload.data # <<>>)
      [] fn.str = "one"        -> Num(1)
      [] fn.str = "echo"       -> req.payload
      [] fn.str = "byPayload"  -> IF req.payload.data # <<>> THEN Num(201) ELSE Undefined
      [] OTHER                 -> Undefined

Reply(status, body, headers, overrides) ==
    [status |-> status, body |-> body, headers |-> headers, headersOverrides |-> overrides]

Handler(when, on, filter, reply, delay) ==
    [when |-> when, on |-> on, filter |-> filter, reply |-> reply, delay |-> delay]

TextPong == Text(<<112, 111, 110, 103>>)   \* "pong"
TextEuro == Text(<<8364>>)                 \* one character, three bytes
BufRaw   == Buffer(<<233, 0>>)

\* The handler descriptors callers register.
Descriptors ==
    { \* { on: "/ping", reply: { body: "pong" } }
      Handler(Undefined, Str("/ping"), Undefined,
              Reply(Undefined, TextPong, Undefined, Undefined), Undefined),
      \* any method; status and body computed from the request; own headers,
      \* one of them null, one overridden; delayed
      Handler(Str("*"), Str("/ping"), Undefined,
              Reply(Fn("byPayload", 1), Fn("echo", 1),
                    [NoHeaders EXCEPT !["x-a"] = Str("1"), !["content-type"] = Null],
                    Header1("x-a", Str("2"))),
              Num(1)),
      \* lower-case method, filter, status function, asynchronous body,
      \* content-length overridden, delayed
      Handler(Str("post"), Str("/ping"), Fn("hasPayload", 1),
              Reply(Fn("byPayload", 1), Fn("later", 2), Undefined,
                    [NoHeaders EXCEPT !["content-length"] = Num(99), !["x-a"] = Null]),
              Num(1)),
      \* { on: "/gone", when: "head", reply: { status: 0, body: null, headers: { "content-type": null } } }
      Handler(Str("head"), Str("/gone"), Undefined,
              Reply(Num(0), Null, Header1("content-type", Null), Undefined), Undefined),
      \* a filter that returns 1, which is not true
      Handler(Undefined, Str("/gone"), Fn("one", 1),
              Reply(Undefined, BufRaw, Undefined, Undefined), Undefined) }

\* The requests that arrive.
Arrivals ==
    { [method |-> "GET",  pathname |-> "/ping", payload |-> Text(<<>>)],
      [method |-> "POST", pathname |-> "/ping", payload |-> TextEuro],
      [method |-> "POST", pathname |-> "/ping", payload |-> Text(<<>>)],
      [method |-> "HEAD", pathname |-> "/ping", payload |-> TextEuro],
      [method |-> "HEAD", pathname |-> "/gone", payload |-> Text(<<>>)],
      [method |-> "GET",  pathname |-> "/gone", payload |-> Text(<<>>)] }

\* What an asynchronous body function may pass to its continuation.
SentBodies == {TextPong, BufRaw}

\* lines 174-179: the defaults of a registered handler.
WithDefaultsPostOnly(raw) ==
    Handler(IF raw.when = Undefined THEN Str("POST") ELSE raw.when,
            raw.on, raw.filter,
            Reply(IF raw.reply.status = Undefined THEN Num(DefaultStatus) ELSE raw.reply.status,
                  IF raw.reply.body = Undefined THEN Text(<<>>) ELSE raw.reply.body,
                  Extend(Extend(NoHeaders, DefaultHeaders), ObjectOrElse(raw.reply.headers, NoHeaders)),
                  raw.reply.headersOverrides),
            raw.delay)

WithDefaults(raw) ==
    Handler(IF raw.when = Undefined THEN Str("GET") ELSE raw.when,
            raw.on, raw.filter,
            Reply(IF raw.reply.status = Undefined THEN Num(DefaultStatus) ELSE raw.reply.status,
                  IF raw.reply.body = Undefined THEN Text(<<>>) ELSE raw.reply.body,
                  Extend(Extend(NoHeaders, DefaultHeaders), ObjectOrElse(raw.reply.headers, NoHeaders)),
                  raw.reply.headersOverrides),
            raw.delay)

\* line 109: the handler is skipped.
Skips(handler, req, handled) ==
    \/ handled
    \/ handler.when # Str("*") /\ req.method # ToUpperCase(handler.when.str)
    \/ Str(req.pathname) # handler.on
    \/ Truthy(handler.filter) /\ CallFn(handler.filter, req) # Bool(TRUE)

\* lines 101-115: the scan of the table; the result is the position of the
\* handler that set `handled`, 0 when none did.
RECURSIVE ScanLastMatch(_, _, _, _, _)
ScanLastMatch(table, objs, req, i, chosen) ==
    IF i > Len(table) THEN chosen
    ELSE IF Skips(objs[table[i]], req, FALSE)
         THEN ScanLastMatch(table, objs, req, i + 1, chosen)
         ELSE ScanLastMatch(table, objs, req, i + 1, i)

RECURSIVE Scan(_, _, _, _, _)
Scan(table, objs, req, i, chosen) ==
    IF i > Len(table) THEN chosen
    ELSE IF Skips(objs[table[i]], req, chosen # 0)
         THEN Scan(table, objs, req, i + 1, chosen)
         ELSE Scan(table, objs, req, i + 1, i)

\* line 109: the filter is invoked when nothing before it in the condition
\* decided that the handler is skipped.
InvokesFilterEager(handler, req, handled) == Truthy(handler.filter)

InvokesFilter(handler, req, handled) ==
    /\ ~handled
    /\ ~(handler.when # Str("*") /\ req.method # ToUpperCase(handler.when.str))
    /\ ~(Str(req.pathname) # handler.on)
    /\ Truthy(handler.filter)

\* An invocation of a caller's function, or of the callback of line 117.
Call(fn, h) == [fn |-> fn, h |-> h]

\* lines 101-115: the filters the scan invokes, in order.
RECURSIVE FilterCalls(_, _, _, _, _)
FilterCalls(table, objs, req, i, handled) ==
    IF i > Len(table) THEN <<>>
    ELSE (IF InvokesFilter(objs[table[i]], req, handled)
          THEN <<Call("filter", table[i])>> ELSE <<>>)
         \o FilterCalls(table, objs, req, i + 1,
                        handled \/ ~Skips(objs[table[i]], req, handled))

\* lines 87-95
GetResponseStatusOrDefault(handler, req) ==
    IF ~IsFunction(handler.reply.status)
    THEN OrElse(handler.reply.status, Num(DefaultStatus))
    ELSE OrElse(CallFn(handler.reply.status, req), Num(DefaultStatus))

GetResponseStatus(handler, req) ==
    IF ~IsFunction(handler.reply.status)
    THEN OrElse(handler.reply.status, Num(0))
    ELSE OrElse(CallFn(handler.reply.status, req), Num(0))

\* lines 67-80: the body of a literal or of a synchronous function; an
\* asynchronous function delivers it later.
IsAsyncBody(handler) ==
    IsFunction(handler.reply.body) /\ handler.reply.body.num > 1

GetResponseBody(handler, req) ==
    IF ~IsFunction(handler.reply.body)
    THEN OrElse(handler.reply.body, Text(<<>>))
    ELSE OrElse(CallFn(handler.reply.body, req), Text(<<>>))

\* lines 117-118: the callback of _getResponseBody runs with the body, and
\* _getResponseStatus invokes a callable status.
CallsOnResolved(handler, hid) ==
    <<Call("resolved", hid)>>
    \o (IF IsFunction(handler.reply.status) THEN <<Call("status", hid)>> ELSE <<>>)

\* lines 67-80, 117: what _getResponseBody invokes when the request is matched.
CallsOnMatchEager(handler, hid) ==
    (IF IsFunction(handler.reply.status) THEN <<Call("status", hid)>> ELSE <<>>)
    \o (IF IsFunction(handler.reply.body) THEN <<Call("body", hid)>> ELSE <<>>)
    \o (IF IsAsyncBody(handler) THEN <<>> ELSE <<Call("resolved", hid)>>)

CallsOnMatch(handler, hid) ==
    (IF IsFunction(handler.reply.body) THEN <<Call("body", hid)>> ELSE <<>>)
    \o (IF IsAsyncBody(handler) THEN <<>> ELSE CallsOnResolved(handler, hid))

\* ------------------------------------------------------------------- state
VARIABLES
    server,       \* line 18: "null", or "server" once start created one
    listener,     \* the listener of `server`: "none", "binding", "listening", "closing"
    closeHooks,   \* line 222: the stop calls whose "close" handler `server` holds
    handlers,     \* line 19: the table, a sequence of handler objects (positions in heap)
    heap,         \* the handler objects created by will, in creation order
    registered,   \* the descriptor each handler object was created from
    connections,  \* line 20: the tracked connections
    sockets,      \* every connection the listener accepted: its state and the
                  \* stop calls whose "close" handler it holds (line 232)
    stops,        \* every stop call: how often its callback was invoked, the
                  \* state of the listener it was issued in and the number of
                  \* start calls before it
    starts,       \* every start call: how often its callback was invoked
    requests      \* every request dispatched: what it matched, which functions
                  \* were invoked for it, what its continuation was handed
                  \* and what was written
VARIABLE
    facade        \* lines 259-289: a ServerMock, its two instances and the
                  \* objects their handlers are made of

vars == <<server, listener, closeHooks, handlers, heap, registered, connections, sockets,
          stops, starts, requests, facade>>

\* The state of the one Server instance followed by Spec and SpecLifecycle.
single == <<server, listener, closeHooks, handlers, heap, registered, connections,
            sockets, stops, starts, requests>>

lifecycle == <<server, listener, closeHooks, connections, sockets, stops, starts>>

\* lines 259-262: a ServerMock holds an HTTP and an HTTPS instance; each is
\* a Server when its configuration is given and a ServerVoid otherwise.  The
\* headers objects and reply objects the handlers refer to are kept apart
\* from the handlers, so that two handlers can hold one object.
Instances == {"http", "https"}

NewServer ==
    [server |-> "null", listener |-> "none", closeHooks |-> <<>>,
     handlers |-> <<>>, connections |-> <<>>]

ServerMock(httpConfig, httpsConfig) ==
    [config   |-> [i \in Instances |-> IF i = "http" THEN httpConfig ELSE httpsConfig],
     inst     |-> [i \in Instances |-> NewServer],
     headers  |-> <<>>,
     replies  |-> <<>>,
     wills    |-> <<>>,
     sockets  |-> <<>>,
     starts   |-> <<>>,
     stops    |-> <<>>,
     started  |-> <<>>,
     stopped  |-> <<>>,
     requests |-> <<>>]

Init ==
    /\ facade = ServerMock(TRUE, TRUE)
    /\ server = "null"
    /\ listener = "none"
    /\ closeHooks = <<>>
    /\ handlers = <<>>
    /\ heap = <<>>
    /\ registered = <<>>
    /\ connections = <<>>
    /\ sockets = <<>>
    /\ stops = <<>>
    /\ starts = <<>>
    /\ requests = <<>>

\* ------------------------------------------------------------ registration
\* lines 172-183: Server.will
Will(raw) ==
    /\ heap' = Append(heap, WithDefaults(raw))
    /\ handlers' = Append(handlers, Len(heap) + 1)
    /\ registered' = Append(registered, raw)
    /\ UNCHANGED <<facade, lifecycle, requests>>

\* ---------------------------------------------------------------- dispatch
Request(method, pathname, payload) ==
    [method |-> method, pathname |-> pathname, payload |-> payload]

\* A response written to the transport: writeHead(status, headers), the
\* chunks handed to write or end, and end.
Written(by, status, headers, content, chunks, setAt, at) ==
    [by |-> by, status |-> status, headers |-> headers, content |-> content,
     chunks |-> chunks, setAt |-> setAt, at |-> at]

\* lines 161-169: _handleDefaultRequest
DefaultResponseTextPlain(at) ==
    Written("default", Num(NotFoundStatus),
            [NotFoundHeaders EXCEPT !["content-type"] = Str("text/plain")],
            NotFoundBody, <<NotFoundBody>>, at, at)

DefaultResponse(at) ==
    Written("default", Num(NotFoundStatus), NotFoundHeaders, NotFoundBody,
            <<NotFoundBody>>, at, at)

\* line 150: the delay of the timer.
DelayOfNone(handler) == 0

DelayOf(handler) == OrElse(handler.delay, Num(0)).num

\* lines 118-150: with the body resolved, the status is resolved, the headers
\* are merged into handler.reply.headers and the response is left to a timer.
Timer(handler, req, content, now) ==
    [status  |-> GetResponseStatus(handler, req),
     headers |-> RemoveNull(MergeHeaders(handler.reply.headers, ByteLength(content),
                                         handler.reply.headersOverrides)),
     content |-> content,
     encoding |-> EncodingOf(content),
     setAt |-> now,
     due |-> now + DelayOf(handler)]

Mutated(handler, content) ==
    [handler EXCEPT !.reply.headers =
        MergeHeaders(handler.reply.headers, ByteLength(content),
                     handler.reply.headersOverrides)]

\* A request still has work pending: a timer, or a continuation its body
\* function may yet invoke.
Pending(r) == r.timers # <<>> \/ (r.async /\ r.sends < MaxSends)

\* lines 97-159: _handleMockedRequest, and _handleDefaultRequest when it
\* calls next().  A request arrives over an accepted connection.
HandleRequest(method, pathname, payload) ==
    /\ \E c \in 1..Len(sockets) : sockets[c].state # "closed"
    /\ LET req == Request(method, pathname, payload)
           i == Scan(handlers, heap, req, 1, 0)
           hid == IF i = 0 THEN 0 ELSE handlers[i]
           new == [method |-> method, pathname |-> pathname, payload |-> payload,
                   hid |-> hid, async |-> FALSE, sends |-> 0, sent |-> <<>>, nexts |-> 0,
                   calls |-> FilterCalls(handlers, heap, req, 1, FALSE)
                             \o (IF hid = 0 THEN <<>> ELSE CallsOnMatch(heap[hid], hid)),
                   timers |-> <<>>, writes |-> <<>>, age |-> 0]
       IN  IF hid = 0
           THEN /\ requests' = Append(requests,
                        [new EXCEPT !.nexts = 1, !.writes = <<DefaultResponse(0)>>])
                /\ heap' = heap
           ELSE IF IsAsyncBody(heap[hid])
           THEN /\ requests' = Append(requests, [new EXCEPT !.async = TRUE])
                /\ heap' = heap
           ELSE LET content == GetResponseBody(heap[hid], req)
                IN  /\ requests' = Append(requests,
                            [new EXCEPT !.timers = <<Timer(heap[hid], req, content, 0)>>])
                    /\ heap' = [heap EXCEPT ![hid] = Mutated(heap[hid], content)]
    /\ UNCHANGED <<facade, lifecycle, handlers, registered>>

\* line 79: the continuation handed to an asynchronous body function is
\* invoked with a value (lines 117-153 run).
SendBody(n, content) ==
    /\ n \in 1..Len(requests)
    /\ requests[n].async
    /\ requests[n].sends < MaxSends
    /\ LET r == requests[n]
           req == Request(r.method, r.pathname, r.payload)
       IN  /\ requests' = [requests EXCEPT ![n].sends = r.sends + 1,
                              ![n].sent = Append(r.sent, content),
                              ![n].calls = r.calls \o CallsOnResolved(heap[r.hid], r.hid),
                              ![n].timers = Append(r.timers,
                                   Timer(heap[r.hid], req, content, r.age))]
           /\ heap' = [heap EXCEPT ![r.hid] = Mutated(heap[r.hid], content)]
    /\ UNCHANGED <<facade, lifecycle, handlers, registered>>

RemoveAt(seq, k) == SubSeq(seq, 1, k - 1) \o SubSeq(seq, k + 1, Len(seq))

\* lines 137-150: the timer's callback writes the response.
BodyChunks(method, content) == IF method # "HEAD" THEN <<content>> ELSE <<>>

\* A timer that waits for every request whose body has not been delivered.
TimerDueSerial(t, now) ==
    /\ now >= t.due
    /\ \A m \in 1..Len(requests) : ~(requests[m].async /\ requests[m].sends = 0)

TimerDue(t, now) == now >= t.due

\* line 140: the headers written are the headersToSend built when the body
\* was resolved (lines 125-134), not the handler's headers at that moment.
HeadersSentLive(t, handler) == RemoveNull(handler.reply.headers)

HeadersSent(t, handler) == t.headers

FireTimer(n, k) ==
    /\ n \in 1..Len(requests)
    /\ k \in 1..Len(requests[n].timers)
    /\ LET r == requests[n]
           t == r.timers[k]
       IN  /\ TimerDue(t, r.age)
           /\ requests' = [requests EXCEPT
                  ![n].timers = RemoveAt(r.timers, k),
                  ![n].writes = Append(r.writes,
                       Written("handler", t.status, HeadersSent(t, heap[r.hid]), t.content,
                               BodyChunks(r.method, t.content), t.setAt, r.age))]
    /\ UNCHANGED <<facade, lifecycle, handlers, heap, registered>>

\* Time passes for the requests that still have work pending.
Tick(limit) ==
    /\ \E n \in 1..Len(requests) : Pending(requests[n])
    /\ \A n \in 1..Len(requests) : Pending(requests[n]) => requests[n].age < limit
    /\ requests' = [n \in 1..Len(requests) |->
                       IF Pending(requests[n])
                       THEN [requests[n] EXCEPT !.age = @ + 1]
                       ELSE requests[n]]
    /\ UNCHANGED <<facade, lifecycle, handlers, heap, registered>>

\* --------------------------------------------------------------- lifecycle
\* lines 185-213: Server.start creates the server and asks it to listen.
Start ==
    /\ server = "null"
    /\ server' = "server"
    /\ listener' = "binding"
    /\ closeHooks' = <<>>
    /\ starts' = Append(starts, [calls |-> 0])
    /\ UNCHANGED <<facade, handlers, heap, registered, connections, sockets, stops, requests>>

\* lines 208-210: the server reports "listening".
Listening ==
    /\ listener = "binding"
    /\ listener' = "listening"
    /\ starts' = [starts EXCEPT ![Len(starts)].calls = @ + 1]
    /\ UNCHANGED <<facade, server, closeHooks, handlers, heap, registered, connections, sockets, stops, requests>>

\* lines 200-206: the server reports a new connection.
Connection ==
    /\ listener = "listening"
    /\ sockets' = Append(sockets, [state |-> "open", hooks |-> <<>>])
    /\ connections' = Append(connections, Len(sockets) + 1)
    /\ UNCHANGED <<facade, server, listener, closeHooks, handlers, heap, registered, stops, starts, requests>>

\* _(connections).without(connection)
WithoutAll(seq, c) == <<>>

RECURSIVE Without(_, _)
Without(seq, c) ==
    IF seq = <<>> THEN <<>>
    ELSE IF Head(seq) = c THEN Without(Tail(seq), c)
         ELSE <<Head(seq)>> \o Without(Tail(seq), c)

Occurrences(seq, x) == Cardinality({k \in 1..Len(seq) : seq[k] = x})

\* line 226: connections.length === 0 when the listener reports closed
NoneTracked(conns) == Len(conns) = 0

\* line 234: connections.length === 0 when a force-closed connection reports
\* its closure
DrainedAlways(conns) == TRUE

Drained(conns) == Len(conns) = 0

\* lines 201-203 and 232-237: a connection reports "close"; the handler
\* start registered runs, then the handlers stop calls registered.
ConnectionClose(c) ==
    /\ c \in 1..Len(sockets)
    /\ sockets[c].state # "closed"
    /\ sockets' = [sockets EXCEPT ![c].state = "closed"]
    /\ connections' = Without(connections, c)
    /\ stops' = [s \in 1..Len(stops) |->
                    IF Drained(connections')
                    THEN [stops[s] EXCEPT !.calls = @ + Occurrences(sockets[c].hooks, s)]
                    ELSE stops[s]]
    /\ UNCHANGED <<facade, server, listener, closeHooks, handlers, heap, registered, starts, requests>>

\* lines 216-244: Server.stop
StopCall(calls, immediate) ==
    [calls |-> calls, immediate |-> immediate, from |-> listener, gen |-> Len(starts)]

StopNoServerSilent == stops' = Append(stops, StopCall(0, TRUE))

StopNoServer == stops' = Append(stops, StopCall(1, TRUE))

Stop ==
    /\ IF server = "null"
       THEN /\ StopNoServer
            /\ UNCHANGED <<listener, closeHooks>>
       ELSE /\ stops' = Append(stops, StopCall(0, FALSE))
            /\ closeHooks' = Append(closeHooks, Len(stops) + 1)
            /\ listener' = "closing"
    /\ UNCHANGED <<facade, server, handlers, heap, registered, connections, sockets, starts, requests>>

\* line 224
ClearedKeep(table) == table

Cleared(table) == <<>>

\* lines 222-241: the server reports "close"; the handlers stop calls
\* registered run in order.
ServerClose ==
    /\ listener = "closing"
    /\ listener' = "none"
    /\ closeHooks' = <<>>
    /\ server' = "null"
    /\ handlers' = Cleared(handlers)
    /\ IF NoneTracked(connections)
       THEN /\ stops' = [s \in 1..Len(stops) |->
                           [stops[s] EXCEPT !.calls = @ + Occurrences(closeHooks, s)]]
            /\ sockets' = sockets
       ELSE /\ stops' = stops
            /\ sockets' = [c \in 1..Len(sockets) |->
                              IF Occurrences(connections, c) > 0
                              THEN [state |-> "ended",
                                    hooks |-> sockets[c].hooks \o closeHooks]
                              ELSE sockets[c]]
    /\ UNCHANGED <<facade, heap, registered, connections, starts, requests>>

\* ------------------------------------------------------------------ facade
\* The handler an instance stores, with the objects it refers to.
HandlerAt(f, h) ==
    Handler(h.when, h.on, h.filter,
            Reply(f.replies[h.reply].status, f.replies[h.reply].body,
                  f.headers[f.replies[h.reply].headers],
                  f.replies[h.reply].headersOverrides),
            h.delay)

TableAt(f, i) ==
    [k \in 1..Len(f.inst[i].handlers) |-> HandlerAt(f, f.inst[i].handlers[k])]

\* The descriptor a caller passes, with the reply object it refers to; its
\* reply may hold no headers object (0).
DescriptorAt(f, d) ==
    Handler(d.when, d.on, d.filter,
            Reply(f.replies[d.reply].status, f.replies[d.reply].body,
                  IF f.replies[d.reply].headers = 0 THEN Undefined
                  ELSE f.headers[f.replies[d.reply].headers],
                  f.replies[d.reply].headersOverrides),
            d.delay)

\* line 176: _({}).extend(...) makes a new headers object.
HeadersObjectReused(f, old, value) ==
    IF old = 0 THEN [headers |-> Append(f.headers, value), ref |-> Len(f.headers) + 1]
    ELSE [headers |-> [f.headers EXCEPT ![old] = value], ref |-> old]

HeadersObject(f, old, value) ==
    [headers |-> Append(f.headers, value), ref |-> Len(f.headers) + 1]

\* lines 172-183: Server.will on instance i with the caller's descriptor d.
\* The result holds the descriptor as the call leaves it: its reply is the
\* new reply object.  line 250: ServerVoid.will does nothing.
ServerWill(f, i, d) ==
    IF ~f.config[i] THEN [f |-> f, d |-> d]
    ELSE LET new == WithDefaults(DescriptorAt(f, d))
             h == HeadersObject(f, f.replies[d.reply].headers, new.reply.headers)
             reply == [status |-> new.reply.status, body |-> new.reply.body,
                       headers |-> h.ref,
                       headersOverrides |-> new.reply.headersOverrides]
             ref == Len(f.replies) + 1
             stored == [when |-> new.when, on |-> new.on, filter |-> new.filter,
                        reply |-> ref, delay |-> new.delay]
         IN  [f |-> [f EXCEPT !.headers = h.headers,
                              !.replies = Append(@, reply),
                              !.inst[i].handlers = Append(@, stored)],
              d |-> [d EXCEPT !.reply = ref]]

\* The caller's descriptor as objects: the descriptor, its reply and, when it
\* has them, its headers.
CallerObjects(f, raw) ==
    LET withHeaders == IsObject(raw.reply.headers)
        headers == IF withHeaders THEN Append(f.headers, raw.reply.headers) ELSE f.headers
        reply == [status |-> raw.reply.status, body |-> raw.reply.body,
                  headers |-> IF withHeaders THEN Len(headers) ELSE 0,
                  headersOverrides |-> raw.reply.headersOverrides]
    IN  [f |-> [f EXCEPT !.headers = headers, !.replies = Append(@, reply)],
         d |-> [when |-> raw.when, on |-> raw.on, filter |-> raw.filter,
                reply |-> Len(f.replies) + 1, delay |-> raw.delay]]

\* lines 265-271: ServerMock.will
FacadeWill(raw) ==
    /\ LET caller == CallerObjects(facade, raw)
           http == ServerWill(caller.f, "http", caller.d)
           https == ServerWill(http.f, "https", http.d)
       IN  facade' = [https.f EXCEPT !.wills = Append(@, raw)]
    /\ UNCHANGED single

\* An instance's start or stop call made for call `call` of the facade, and
\* how often its callback was invoked.
InstanceCall(i, call, calls) == [inst |-> i, call |-> call, calls |-> calls]

\* lines 185-213: Server.start creates the server and asks it to listen.
ServerStart(f, i, call) ==
    [f EXCEPT !.starts = Append(@, InstanceCall(i, call, 0)),
              !.inst[i].server = "server",
              !.inst[i].listener = "binding",
              !.inst[i].closeHooks = <<>>]

\* line 277: the callback of the facade's start call.
FacadeStarted(f, call) == [f EXCEPT !.started[call] = @ + 1]

\* line 276: httpsServerMock.start; line 251 for a ServerVoid.
HttpsStart(f, call) ==
    IF f.config["https"] THEN ServerStart(f, "https", call)
    ELSE FacadeStarted([f EXCEPT !.starts = Append(@, InstanceCall("https", call, 1))], call)

\* line 275: httpServerMock.start; line 251 for a ServerVoid.
HttpStartBoth(f, call) ==
    IF f.config["http"] THEN HttpsStart(ServerStart(f, "http", call), call)
    ELSE HttpsStart([f EXCEPT !.starts = Append(@, InstanceCall("http", call, 1))], call)

HttpStart(f, call) ==
    IF f.config["http"] THEN ServerStart(f, "http", call)
    ELSE HttpsStart([f EXCEPT !.starts = Append(@, InstanceCall("http", call, 1))], call)

\* lines 273-280: ServerMock.start, on a facade neither instance of which has
\* a server and no start of which is under way.
FacadeStart ==
    /\ \A i \in Instances : facade.inst[i].server = "null"
    /\ \A c \in 1..Len(facade.started) : facade.started[c] > 0
    /\ facade' = HttpStart([facade EXCEPT !.started = Append(@, 0)],
                           Len(facade.started) + 1)
    /\ UNCHANGED single

\* The start call under way on instance i.
Starting(f, i) ==
    CHOOSE s \in 1..Len(f.starts) :
        /\ f.starts[s].inst = i
        /\ \A t \in (s + 1)..Len(f.starts) : f.starts[t].inst # i

\* lines 208-210: the server of instance i reports "listening"; lines 275-279:
\* the callback starts the HTTPS instance, or is the facade's.
InstanceListening(i) ==
    /\ facade.inst[i].listener = "binding"
    /\ LET s == Starting(facade, i)
           f == [facade EXCEPT !.inst[i].listener = "listening",
                               !.starts[s].calls = @ + 1]
       IN  facade' = IF i = "http" THEN HttpsStart(f, f.starts[s].call)
                     ELSE FacadeStarted(f, f.starts[s].call)
    /\ UNCHANGED single

\* lines 200-206: the server of instance i reports a new connection.
InstanceConnection(i) ==
    /\ facade.inst[i].listener = "listening"
    /\ facade' = [facade EXCEPT
           !.sockets = Append(@, [owner |-> i, state |-> "open", hooks |-> <<>>]),
           !.inst[i].connections = Append(@, Len(facade.sockets) + 1)]
    /\ UNCHANGED single

\* line 285: the callback of the facade's stop call.
FacadeStopped(f, call) == [f EXCEPT !.stopped[call] = @ + 1]

\* lines 216-244: Server.stop; line 252 for a ServerVoid.
ServerStop(f, i, call) ==
    IF ~f.config[i] \/ f.inst[i].server = "null"
    THEN [f EXCEPT !.stops = Append(@, InstanceCall(i, call, 1))]
    ELSE [f EXCEPT !.stops = Append(@, InstanceCall(i, call, 0)),
                   !.inst[i].closeHooks = Append(@, Len(f.stops) + 1),
                   !.inst[i].listener = "closing"]

\* The callback of the stop call just made was invoked in the call.
StoppedAtOnce(f) == f.stops[Len(f.stops)].calls = 1

\* line 285: httpsServerMock.stop(callback)
HttpsStop(f, call) ==
    LET g == ServerStop(f, "https", call)
    IN  IF StoppedAtOnce(g) THEN FacadeStopped(g, call) ELSE g

\* lines 284-286: httpServerMock.stop with the callback that stops the HTTPS
\* instance.
HttpStop(f, call) ==
    LET g == ServerStop(f, "http", call)
    IN  IF StoppedAtOnce(g) THEN HttpsStop(g, call) ELSE g

\* lines 282-287: ServerMock.stop
FacadeStop ==
    /\ facade' = HttpStop([facade EXCEPT !.stopped = Append(@, 0)],
                          Len(facade.stopped) + 1)
    /\ UNCHANGED single

\* The callbacks of the stop calls `hooks` are invoked, in order: that of a
\* stop of the HTTP instance stops the HTTPS instance (line 285), that of a
\* stop of the HTTPS instance is the facade's.
RECURSIVE Signal(_, _)
Signal(f, hooks) ==
    IF hooks = <<>> THEN f
    ELSE LET s == Head(hooks)
             g == [f EXCEPT !.stops[s].calls = @ + 1]
         IN  Signal(IF g.stops[s].inst = "http" THEN HttpsStop(g, g.stops[s].call)
                    ELSE FacadeStopped(g, g.stops[s].call),
                    Tail(hooks))

\* lines 222-241: the server of instance i reports "close".
InstanceClose(i) ==
    /\ facade.inst[i].listener = "closing"
    /\ LET hooks == facade.inst[i].closeHooks
           f == [facade EXCEPT !.inst[i].listener = "none",
                               !.inst[i].server = "null",
                               !.inst[i].closeHooks = <<>>,
                               !.inst[i].handlers = Cleared(@)]
       IN  facade' =
             IF NoneTracked(f.inst[i].connections) THEN Signal(f, hooks)
             ELSE [f EXCEPT !.sockets =
                     [c \in 1..Len(f.sockets) |->
                        IF Occurrences(f.inst[i].connections, c) > 0
                        THEN [f.sockets[c] EXCEPT !.state = "ended", !.hooks = @ \o hooks]
                        ELSE f.sockets[c]]]
    /\ UNCHANGED single

\* lines 201-203 and 232-237: connection c reports "close".
InstanceConnectionClose(c) ==
    /\ c \in 1..Len(facade.sockets)
    /\ facade.sockets[c].state # "closed"
    /\ LET i == facade.sockets[c].owner
           f == [facade EXCEPT !.sockets[c].state = "closed",
                               !.inst[i].connections = Without(@, c)]
       IN  facade' = IF Drained(f.inst[i].connections)
                     THEN Signal(f, facade.sockets[c].hooks) ELSE f
    /\ UNCHANGED single

\* lines 97-169: a request to instance i, which arrives over one of its
\* connections.  The handlers registered through the facade here have a body
\* that is not an asynchronous function and no delay: the response is left
\* to a timer that is due at once.
FacadeRequest(i, method, pathname, payload) ==
    /\ \E c \in 1..Len(facade.sockets) :
          facade.sockets[c].owner = i /\ facade.sockets[c].state # "closed"
    /\ LET req == Request(method, pathname, payload)
           objs == TableAt(facade, i)
           k == Scan([j \in 1..Len(objs) |-> j], objs, req, 1, 0)
           new == [inst |-> i, method |-> method, pathname |-> pathname,
                   payload |-> payload, hid |-> k, timers |-> <<>>, writes |-> <<>>]
       IN  IF k = 0
           THEN facade' = [facade EXCEPT !.requests =
                              Append(@, [new EXCEPT !.writes = <<DefaultResponse(0)>>])]
           ELSE LET content == GetResponseBody(objs[k], req)
                    h == facade.replies[facade.inst[i].handlers[k].reply].headers
                IN  facade' = [facade EXCEPT
                       !.requests = Append(@, [new EXCEPT
                                        !.timers = <<Timer(objs[k], req, content, 0)>>]),
                       !.headers[h] = Mutated(objs[k], content).reply.headers]
    /\ UNCHANGED single

\* lines 137-150: the timer of request n of the facade writes the response.
FacadeFireTimer(n) ==
    /\ n \in 1..Len(facade.requests)
    /\ facade.requests[n].timers # <<>>
    /\ LET r == facade.requests[n]
           t == r.timers[1]
       IN  facade' = [facade EXCEPT
              !.requests[n].timers = <<>>,
              !.requests[n].writes =
                 <<Written("handler", t.status, t.headers, t.content,
                           BodyChunks(r.method, t.content), t.setAt, 0)>>]
    /\ UNCHANGED single

\* The descriptors registered through the facade.
FacadeDescriptors ==
    {d \in Descriptors : d.delay = Undefined /\ ~IsAsyncBody(WithDefaults(d))}

\* One step of the server or of its callers, while the behaviour is within
\* the number of calls, arrivals and time units it is followed for.
Next(limit, nw, nr, nc, ns, nt) ==
    \/ \E raw \in Descriptors : Len(heap) < nw /\ Will(raw)
    \/ \E q \in Arrivals : Len(requests) < nr /\ HandleRequest(q.method, q.pathname, q.payload)
    \/ \E n \in 1..Len(requests), content \in SentBodies : SendBody(n, content)
    \/ \E n \in 1..Len(requests), k \in 1..MaxSends : FireTimer(n, k)
    \/ Tick(limit)
    \/ Len(starts) < nt /\ Start
    \/ Listening
    \/ Len(sockets) < nc /\ Connection
    \/ \E c \in 1..Len(sockets) : ConnectionClose(c)
    \/ Len(stops) < ns /\ Stop
    \/ ServerClose

Spec ==
    Init /\ [][Next(MaxAge, MaxWills, MaxReqs, MaxConns, MaxStops, MaxStarts)]_vars

SpecLifecycle ==
    Init /\ [][Next(LifeAge, LifeWills, LifeReqs, LifeConns, LifeStops, LifeStarts)]_vars

\* A facade of every configuration, its callers and its two listeners.
InitFacade ==
    /\ \E httpConfig, httpsConfig \in BOOLEAN : facade = ServerMock(httpConfig, httpsConfig)
    /\ server = "null"
    /\ listener = "none"
    /\ closeHooks = <<>>
    /\ handlers = <<>>
    /\ heap = <<>>
    /\ registered = <<>>
    /\ connections = <<>>
    /\ sockets = <<>>
    /\ stops = <<>>
    /\ starts = <<>>
    /\ requests = <<>>

NextFacade ==
    \/ \E raw \in FacadeDescriptors : Len(facade.wills) < FacadeWills /\ FacadeWill(raw)
    \/ Len(facade.started) < FacadeStarts /\ FacadeStart
    \/ \E i \in Instances : InstanceListening(i)
    \/ \E i \in Instances : Len(facade.sockets) < FacadeConns /\ InstanceConnection(i)
    \/ \E c \in 1..Len(facade.sockets) : InstanceConnectionClose(c)
    \/ Len(facade.stopped) < FacadeStops /\ FacadeStop
    \/ \E i \in Instances : InstanceClose(i)
    \/ \E i \in Instances, q \in Arrivals :
          Len(facade.requests) < FacadeReqs
          /\ FacadeRequest(i, q.method, q.pathname, q.payload)
    \/ \E n \in 1..Len(facade.requests) : FacadeFireTimer(n)

SpecFacade == InitFacade /\ [][NextFacade]_vars

\* The listener reports closed once asked to close, and a connection that was
\* force-closed reports its closure.
SpecLifecycleFair ==
    /\ SpecLifecycle
    /\ WF_vars(ServerClose)
    /\ \A c \in 1..LifeConns : WF_vars(ConnectionClose(c) /\ sockets[c].state = "ended")

\* ================================================================== claims
ReqOf(r) == Request(r.method, r.pathname, r.payload)
Arrived == Len(requests') > Len(requests)
Newest == requests'[Len(requests')]
HandlerWrites(r) == {k \in 1..Len(r.writes) : r.writes[k].by = "handler"}

\* A handler matches a request, in the words of the specification.
ClaimMatches(h, req) ==
    /\ h.when = Str("*") \/ ToUpperCase(h.when.str) = ToUpperCase(req.method)
    /\ h.on = Str(req.pathname)
    /\ h.filter = Undefined \/ CallFn(h.filter, req) = Bool(TRUE)

\* The earliest-registered handler of the table that matches, 0 when none.
EarliestMatch(table, objs, req) ==
    LET M == {i \in 1..Len(table) : ClaimMatches(objs[table[i]], req)}
    IN  IF M = {} THEN 0 ELSE table[CHOOSE i \in M : \A j \in M : i <= j]

\* The header set of the precedence law: defaults, then the registered
\* headers, then the computed content-length, then headersOverrides, with the
\* keys whose value is null removed.
LawHeaders(raw, content) ==
    [k \in HeaderNames |->
        LET over == raw.reply.headersOverrides
            own  == raw.reply.headers
            v == IF IsObject(over) /\ over[k] # Undefined THEN over[k]
                 ELSE IF k = "content-length" THEN Num(ByteLength(content))
                 ELSE IF IsObject(own) /\ own[k] # Undefined THEN own[k]
                 ELSE IF k = "content-type" THEN Str("application/json")
                 ELSE Undefined
        IN  IF v = Null THEN Undefined ELSE v]

\* C1: the handler that answers a request is the earliest-registered handler
\* that matches it (method "*" or equal ignoring case, path equal, filter
\* absent or returning true), and the status, body and delay of every response
\* prepared for the request are those of that handler.
C1_FirstMatchWins ==
    /\ [][Arrived => Newest.hid = EarliestMatch(handlers, heap, ReqOf(Newest))]_vars
    /\ [](\A n \in 1..Len(requests) :
            LET r == requests[n]
            IN  r.hid # 0 =>
                  /\ \A k \in 1..Len(r.timers) :
                        /\ r.timers[k].status = GetResponseStatus(heap[r.hid], ReqOf(r))
                        /\ r.timers[k].due - r.timers[k].setAt = DelayOf(heap[r.hid])
                        /\ ~r.async => r.timers[k].content = GetResponseBody(heap[r.hid], ReqOf(r))
                  /\ \A k \in 1..Len(r.writes) :
                        /\ r.writes[k].by = "handler"
                        /\ r.writes[k].status = GetResponseStatus(heap[r.hid], ReqOf(r))
                        /\ ~r.async => r.writes[k].content = GetResponseBody(heap[r.hid], ReqOf(r)))

\* Two different handlers of the table match a request, and the first one
\* has answered it.
C1_Witness ==
    \E n \in 1..Len(requests) :
        /\ Len(handlers) = 2
        /\ requests[n].hid = handlers[1]
        /\ registered[handlers[1]] # registered[handlers[2]]
        /\ ClaimMatches(heap[handlers[2]], ReqOf(requests[n]))
        /\ HandlerWrites(requests[n]) # {}

NotFoundWritten ==
    [by |-> "default", status |-> Num(404),
     headers |-> [k \in HeaderNames |->
                    IF k = "content-type" THEN Str("plain/text")
                    ELSE IF k = "content-length" THEN Num(9) ELSE Undefined],
     content |-> Text(<<78, 111, 116, 32, 70, 111, 117, 110, 100>>),
     chunks |-> <<Text(<<78, 111, 116, 32, 70, 111, 117, 110, 100>>)>>,
     setAt |-> 0, at |-> 0]

\* C2: a request that no registered handler matches is answered, at once and
\* whatever its method, with exactly status 404, headers content-type:
\* plain/text and content-length: 9, and body "Not Found".
C2_DefaultResponse ==
    /\ [][Arrived /\ EarliestMatch(handlers, heap, ReqOf(Newest)) = 0
            => /\ Newest.writes = <<NotFoundWritten>>
               /\ Newest.timers = <<>>
               /\ ~Newest.async]_vars
    /\ [](\A n \in 1..Len(requests) :
            requests[n].hid = 0 => requests[n].writes = <<NotFoundWritten>>)

\* A POST and a HEAD request got the default response although the table held
\* handlers for their path: one skipped by its filter, one by its method.
C2_Witness ==
    /\ Len(requests) = 2
    /\ Len(handlers) > 0
    /\ \E n \in 1..2 : requests[n].method = "HEAD" /\ requests[n].hid = 0
    /\ \E n \in 1..2 :
          /\ requests[n].method = "POST"
          /\ requests[n].hid = 0
          /\ \E i \in 1..Len(handlers) :
                /\ heap[handlers[i]].on = Str(requests[n].pathname)
                /\ heap[handlers[i]].filter # Undefined

\* C3: the headers of every response prepared by a handler are the defaults
\* overlaid by the registered headers, by the content-length of the resolved
\* body and by headersOverrides, without the keys whose value is null; for the
\* first request a handler serves and for every later one.
C3_HeaderPrecedence ==
    \A n \in 1..Len(requests) :
        LET r == requests[n]
        IN  r.hid # 0 =>
              /\ \A k \in 1..Len(r.timers) :
                    r.timers[k].headers = LawHeaders(registered[r.hid], r.timers[k].content)
              /\ \A k \in 1..Len(r.writes) :
                    r.writes[k].headers = LawHeaders(registered[r.hid], r.writes[k].content)

\* One handler with own headers, a null header and overrides has answered two
\* requests with bodies of different lengths.
C3_Witness ==
    /\ Len(requests) = 2
    /\ requests[1].hid # 0
    /\ requests[1].hid = requests[2].hid
    /\ IsObject(registered[requests[1].hid].reply.headersOverrides)
    /\ IsObject(registered[requests[1].hid].reply.headers)
    /\ \E k \in HeaderNames : registered[requests[1].hid].reply.headers[k] = Null
    /\ Len(requests[1].writes) = 1
    /\ Len(requests[2].writes) = 1
    /\ ByteLength(requests[1].writes[1].content) # ByteLength(requests[2].writes[1].content)

\* C4: a request is handed to the default response exactly when no handler
\* matched it, and no request has more than one response written.
C4_OneOutcome ==
    \A n \in 1..Len(requests) :
        LET r == requests[n]
        IN  /\ (r.nexts > 0) <=> (r.hid = 0)
            /\ r.nexts <= 1
            /\ Len(r.writes) <= 1

\* C5: no body bytes are written for a HEAD request, whether a handler or the
\* default response answers it, and the content-length sent is that of the
\* response to the same request with another method.
C5_HeadHasNoBody ==
    \A n \in 1..Len(requests) :
        LET r == requests[n]
        IN  r.method = "HEAD" =>
              \A k \in 1..Len(r.writes) :
                 /\ r.writes[k].chunks = <<>>
                 /\ r.writes[k].headers["content-length"] =
                       IF r.hid = 0 THEN Num(9)
                       ELSE LawHeaders(registered[r.hid], r.writes[k].content)["content-length"]

\* The callback of stop call s is invoked in this step.
Completes(s) ==
    stops'[s].calls > (IF s <= Len(stops) THEN stops[s].calls ELSE 0)
StopCalled == Len(stops') > Len(stops)

\* C6: whenever the callback of a stop call is invoked, the server has no
\* active listener and tracks no connection.
C6_StopCompletionSafe ==
    [][\A s \in 1..Len(stops') :
          Completes(s) => server' = "null" /\ listener' = "none" /\ connections' = <<>>]_vars

\* C7, as claimed: whenever the callback of a stop call is invoked, the
\* handler table is empty.
C7_TableEmptyAtCompletion ==
    [][\A s \in 1..Len(stops') : Completes(s) => handlers' = <<>>]_vars

\* C7, amended: the table is emptied when the listener reports closed after a
\* stop call on a started server, and a request dispatched on the empty table
\* gets the default response; a stop call on a server without a listener
\* leaves the table as it is.
C7_TableClearedOnClose ==
    /\ [][listener = "closing" /\ listener' # "closing" => handlers' = <<>>]_vars
    /\ [][Arrived /\ handlers = <<>> => Newest.writes = <<NotFoundWritten>>]_vars
    /\ [][StopCalled /\ server = "null" => handlers' = handlers]_vars

\* A handler was registered, the server was started and stopped, the stop
\* completed, and a request served after a second start got the default
\* response.
C7_Witness ==
    /\ Len(starts) = 2
    /\ Len(heap) = 1
    /\ handlers = <<>>
    /\ \E s \in 1..Len(stops) : ~stops[s].immediate /\ stops[s].calls = 1
    /\ \E n \in 1..Len(requests) :
          /\ requests[n].writes = <<NotFoundWritten>>
          /\ ClaimMatches(heap[1], ReqOf(requests[n]))

\* C8: a stop call on a server without a listener invokes its callback at
\* once and exactly once, and changes neither the listener nor the tracked
\* connections.
C8_StopWithoutServer ==
    /\ [][StopCalled /\ server = "null"
            => /\ stops'[Len(stops')].calls = 1
               /\ UNCHANGED <<server, listener, closeHooks, connections, sockets>>]_vars
    /\ [][\A s \in 1..Len(stops) :
            stops[s].immediate => stops'[s].calls = stops[s].calls]_vars

\* A stop call on a server never started completed once; so did the stop of
\* the server started afterwards, once its connections were closed.
C8_Witness ==
    /\ Len(stops) = 2
    /\ stops[1].immediate /\ stops[1].calls = 1
    /\ Len(starts) = 1
    /\ ~stops[2].immediate /\ stops[2].calls = 1
    /\ Len(sockets) > 0 /\ connections = <<>>

RegisteredDelay(raw) == IF raw.delay = Undefined THEN 0 ELSE raw.delay.num

\* C9: a response of a handler with delay D is written no earlier than D time
\* units after the request was matched, and no earlier than D time units
\* after its body was resolved.
C9_DelayLowerBound ==
    \A n \in 1..Len(requests) :
        LET r == requests[n]
        IN  r.hid # 0 =>
              \A k \in 1..Len(r.writes) :
                 /\ r.writes[k].at >= RegisteredDelay(registered[r.hid])
                 /\ r.writes[k].at >= r.writes[k].setAt + RegisteredDelay(registered[r.hid])

\* A delayed handler with an asynchronous body, whose continuation was invoked
\* some time after the request was matched, has written its response.
C9_Witness ==
    \E n \in 1..Len(requests) :
        /\ requests[n].async
        /\ RegisteredDelay(registered[requests[n].hid]) > 0
        /\ \E k \in 1..Len(requests[n].writes) : requests[n].writes[k].setAt > 0

WillCalled == Len(heap') > Len(heap)
ScenarioA ==
    Handler(Undefined, Str("/ping"), Undefined,
            Reply(Undefined, TextPong, Undefined, Undefined), Undefined)

\* C10: a register call appends one handler to the table and leaves the
\* earlier ones as they are; the handler stored has method "GET", status 200
\* and body "" where the descriptor has none, and content-type:
\* application/json unless the descriptor sets content-type.  The handler
\* { on: "/ping", reply: { body: "pong" } } answers GET /ping with 200,
\* content-type application/json, content-length 4 and body pong.
C10_WillAppendsWithDefaults ==
    /\ [][WillCalled =>
            LET raw == registered'[Len(heap')]
                h == heap'[Len(heap')]
            IN  /\ Len(heap') = Len(heap) + 1
                /\ handlers' = handlers \o <<Len(heap')>>
                /\ \A i \in 1..Len(heap) : heap'[i] = heap[i]
                /\ h.when = (IF raw.when = Undefined THEN Str("GET") ELSE raw.when)
                /\ h.reply.status = (IF raw.reply.status = Undefined THEN Num(200)
                                     ELSE raw.reply.status)
                /\ h.reply.body = (IF raw.reply.body = Undefined THEN Text(<<>>)
                                   ELSE raw.reply.body)
                /\ h.reply.headers["content-type"] =
                      (IF IsObject(raw.reply.headers)
                          /\ raw.reply.headers["content-type"] # Undefined
                       THEN raw.reply.headers["content-type"]
                       ELSE Str("application/json"))
                /\ h.on = raw.on /\ h.filter = raw.filter /\ h.delay = raw.delay
                /\ h.reply.headersOverrides = raw.reply.headersOverrides]_vars
    /\ [](\A n \in 1..Len(requests) :
            LET r == requests[n]
            IN  r.hid # 0 /\ registered[r.hid] = ScenarioA =>
                  /\ r.method = "GET" /\ r.pathname = "/ping"
                  /\ \A k \in 1..Len(r.writes) :
                        /\ r.writes[k].status = Num(200)
                        /\ r.writes[k].headers["content-type"] = Str("application/json")
                        /\ r.writes[k].headers["content-length"] = Num(4)
                        /\ r.writes[k].chunks = <<TextPong>>)

\* The handler { on: "/ping", reply: { body: "pong" } }, registered second,
\* has answered GET /ping.
C10_Witness ==
    \E n \in 1..Len(requests) :
        /\ Len(handlers) = 2
        /\ requests[n].hid = handlers[2]
        /\ registered[handlers[2]] = ScenarioA
        /\ Len(requests[n].writes) = 1

\* The invocations of kind fn among the first p of a request's invocations.
CountCalls(calls, fn, p) == Cardinality({q \in 1..p : calls[q].fn = fn})

\* C13: for a matched request the status function is invoked only after the
\* body was delivered, once per delivery at most, and no response is prepared
\* before the body was delivered; while the continuation of an asynchronous
\* body function has not been invoked, the status function is not invoked
\* and nothing is prepared or written.
C13_BodyBeforeStatus ==
    \A n \in 1..Len(requests) :
        LET r == requests[n]
            c == r.calls
        IN  /\ \A p \in 1..Len(c) :
                  c[p].fn = "status" =>
                     CountCalls(c, "resolved", p - 1) >= CountCalls(c, "status", p)
            /\ Len(r.timers) + Len(r.writes) <= CountCalls(c, "resolved", Len(c)) + r.nexts
            /\ (r.async /\ r.sends = 0) =>
                  /\ CountCalls(c, "status", Len(c)) = 0
                  /\ r.timers = <<>>
                  /\ r.writes = <<>>

\* A request whose handler has a status function and an asynchronous body
\* waited one time unit for its body; the status function was invoked after
\* the delivery and the response was written.
C13_Witness ==
    \E n \in 1..Len(requests) :
        LET r == requests[n]
        IN  /\ r.async
            /\ r.sends = 1
            /\ IsFunction(heap[r.hid].reply.status)
            /\ Len(r.writes) = 1
            /\ r.writes[1].setAt > 0
            /\ r.calls[Len(r.calls)].fn = "status"

Falsy(v) == v \in {Undefined, Null, Num(0), Bool(FALSE), Text(<<>>)}

\* The results of the resolver, in the words of the specification.
LawStatus(h, req) ==
    LET v == IF h.reply.status.kind = "function" THEN CallFn(h.reply.status, req)
             ELSE h.reply.status
    IN  IF Falsy(v) THEN Num(0) ELSE v

LawBody(h, req) ==
    LET v == IF h.reply.body.kind = "function" THEN CallFn(h.reply.body, req)
             ELSE h.reply.body
    IN  IF Falsy(v) THEN Text(<<>>) ELSE v

\* C14: the status of every response prepared is reply.status, or what a
\* callable reply.status returns for the request, and 0 when that is falsy; a
\* callable status is invoked once for each delivery of the body.  The body
\* is reply.body, or what a callable of at most one parameter returns for the
\* request, and "" when that is falsy; a body function is invoked once.  The
\* body of a function of two parameters is the value handed to its
\* continuation.
C14_ResolverResult ==
    /\ [](\A n \in 1..Len(requests) :
            LET r == requests[n]
                h == heap[r.hid]
                c == r.calls
            IN  r.hid # 0 =>
                  /\ \A k \in 1..Len(r.timers) :
                        /\ r.timers[k].status = LawStatus(h, ReqOf(r))
                        /\ IF r.async THEN \E q \in 1..Len(r.sent) : r.timers[k].content = r.sent[q]
                           ELSE r.timers[k].content = LawBody(h, ReqOf(r))
                  /\ \A k \in 1..Len(r.writes) :
                        /\ r.writes[k].status = LawStatus(h, ReqOf(r))
                        /\ IF r.async THEN \E q \in 1..Len(r.sent) : r.writes[k].content = r.sent[q]
                           ELSE r.writes[k].content = LawBody(h, ReqOf(r))
                  /\ CountCalls(c, "status", Len(c)) =
                        (IF h.reply.status.kind = "function"
                         THEN CountCalls(c, "resolved", Len(c)) ELSE 0)
                  /\ CountCalls(c, "body", Len(c)) =
                        (IF h.reply.body.kind = "function" THEN 1 ELSE 0)
                  /\ r.async <=> (h.reply.body.kind = "function" /\ h.reply.body.num >= 2))
    /\ [][\A n \in 1..Len(requests) :
            Len(requests'[n].sent) > Len(requests[n].sent) =>
               LET r == requests'[n]
               IN  /\ Len(r.timers) = Len(requests[n].timers) + 1
                   /\ r.timers[Len(r.timers)].content = r.sent[Len(r.sent)]]_vars

\* A status function returned nothing for the request and the response was
\* written with status 0 and the body "" the body function's empty result
\* stands for; another handler's continuation was handed a buffer, which was
\* written.
C14_Witness ==
    /\ \E n \in 1..Len(requests) :
          LET r == requests[n]
          IN  /\ r.hid # 0
              /\ IsFunction(heap[r.hid].reply.status)
              /\ IsFunction(heap[r.hid].reply.body)
              /\ Len(r.writes) = 1
              /\ r.writes[1].status = Num(0)
              /\ r.writes[1].content = Text(<<>>)
    /\ \E n \in 1..Len(requests) :
          LET r == requests[n]
          IN  /\ r.async
              /\ r.sent = <<BufRaw>>
              /\ Len(r.writes) = 1
              /\ r.writes[1].content = BufRaw

\* Method and path of a handler match a request, in the words of the
\* specification.
ClaimMethodPath(h, req) ==
    /\ h.when = Str("*") \/ ToUpperCase(h.when.str) = ToUpperCase(req.method)
    /\ h.on = Str(req.pathname)

Position(table, id) == CHOOSE i \in 1..Len(table) : table[i] = id

\* C17: during the scan for a request, the filter of a handler is invoked
\* only if no earlier handler of the table matches the request and the
\* handler's method and path match it; the body and status functions invoked
\* for a request are those of the handler that matched, so once a handler has
\* matched no function of a later handler is invoked.
C17_NoEvaluationPastMatch ==
    /\ [][Arrived =>
            \A p \in 1..Len(Newest.calls) :
               LET e == Newest.calls[p]
               IN  e.fn = "filter" =>
                     /\ \E i \in 1..Len(handlers) : handlers[i] = e.h
                     /\ ClaimMethodPath(heap[e.h], ReqOf(Newest))
                     /\ heap[e.h].filter # Undefined
                     /\ \A j \in 1..(Position(handlers, e.h) - 1) :
                           ~ClaimMatches(heap[handlers[j]], ReqOf(Newest))]_vars
    /\ [](\A n \in 1..Len(requests) :
            \A p \in 1..Len(requests[n].calls) :
               requests[n].calls[p].fn # "filter" => requests[n].calls[p].h = requests[n].hid)

\* The first of two handlers answered a request; the second has a filter and
\* its method and path match the request too, and no filter was invoked.
C17_Witness ==
    \E n \in 1..Len(requests) :
        LET r == requests[n]
        IN  /\ Len(handlers) = 2
            /\ r.hid = handlers[1]
            /\ heap[handlers[2]].filter # Undefined
            /\ ClaimMethodPath(heap[handlers[2]], ReqOf(r))
            /\ \A p \in 1..Len(r.calls) : r.calls[p].fn # "filter"
            /\ Len(r.writes) = 1

\* C15, as claimed: serving a request changes neither the table nor any
\* stored handler.
C15_HandlersImmutable ==
    [][requests' # requests =>
          /\ handlers' = handlers
          /\ \A i \in 1..Len(heap) : heap'[i] = heap[i]]_vars

\* How often connection c is in the tracked set.
Tracked(conns, c) == Cardinality({k \in 1..Len(conns) : conns[k] = c})

\* C16: the tracked set holds each connection the listener reported and that
\* has not reported its closure exactly once, and nothing else; when a
\* connection reports its closure it leaves the set and the others stay, in
\* their order.
C16_TrackerExact ==
    /\ [](/\ \A k \in 1..Len(connections) : connections[k] \in 1..Len(sockets)
          /\ \A c \in 1..Len(sockets) :
                Tracked(connections, c) = (IF sockets[c].state = "closed" THEN 0 ELSE 1))
    /\ [][\A c \in 1..Len(sockets) :
            sockets[c].state # "closed" /\ sockets'[c].state = "closed" =>
               /\ Tracked(connections', c) = 0
               /\ Len(connections') = Len(connections) - 1
               /\ \A d \in 1..Len(sockets) :
                     d # c => Tracked(connections', d) = Tracked(connections, d)
               /\ \A k \in 1..Len(connections') :
                     connections'[k] =
                        connections[IF k < Position(connections, c) THEN k ELSE k + 1]]_vars

\* The first of two connections has reported its closure and the second is
\* still tracked, across a stop that force-closed it.
C16_Witness ==
    /\ Len(sockets) = 2
    /\ sockets[1].state = "closed"
    /\ sockets[2].state = "ended"
    /\ connections = <<2>>

\* The delay of the response prepared as timer t of request r has elapsed.
Elapsed(r, t) == r.age >= t.setAt + RegisteredDelay(registered[r.hid])

\* What a step changes of a request, time apart.
Progress(r) == <<r.sends, r.sent, r.calls, r.timers, r.writes, r.nexts>>

\* C18: whatever other requests are waiting for, a response whose delay has
\* elapsed can be written, and the continuation of an asynchronous body can
\* be invoked; a step of one request changes no other request, and what is
\* written for a request is what was prepared for it.
C18_RequestIndependence ==
    /\ [](\A n \in 1..Len(requests) :
            /\ \A k \in 1..Len(requests[n].timers) :
                  Elapsed(requests[n], requests[n].timers[k]) => ENABLED FireTimer(n, k)
            /\ requests[n].async /\ requests[n].sends < MaxSends =>
                  \A content \in SentBodies : ENABLED SendBody(n, content))
    /\ [][\A n, m \in 1..Len(requests) :
            n # m /\ Progress(requests'[n]) # Progress(requests[n])
               => Progress(requests'[m]) = Progress(requests[m])]_vars
    /\ [][\A n \in 1..Len(requests) :
            Len(requests'[n].writes) > Len(requests[n].writes) =>
               \E k \in 1..Len(requests[n].timers) :
                  LET t == requests[n].timers[k]
                      w == requests'[n].writes[Len(requests'[n].writes)]
                  IN  /\ w.status = t.status
                      /\ w.headers = t.headers
                      /\ w.content = t.content
                      /\ Elapsed(requests[n], t)]_vars

\* The first request has waited a time unit for its body and still waits;
\* the second, which arrived later for another handler, has its response.
C18_Witness ==
    /\ Len(requests) = 2
    /\ requests[1].async
    /\ requests[1].sends = 0
    /\ requests[1].age > 0
    /\ requests[2].hid # 0
    /\ requests[2].hid # requests[1].hid
    /\ Len(requests[2].writes) = 1

\* The content-length of the precedence law is not replaced or suppressed by
\* headersOverrides.
LengthComputed(raw) ==
    ~(IsObject(raw.reply.headersOverrides)
      /\ raw.reply.headersOverrides["content-length"] # Undefined)

BytesOf(content) ==
    IF content.kind = "buffer" THEN Len(content.data) ELSE Utf8Length(content.data)

\* C20: the content-length of every response prepared or written for a
\* matched request, unless headersOverrides replaces or suppresses it, is the
\* byte length of the body resolved for this request, however the requests to
\* one handler interleave.
C20_OwnContentLength ==
    \A n \in 1..Len(requests) :
        LET r == requests[n]
        IN  r.hid # 0 /\ LengthComputed(registered[r.hid]) =>
              /\ \A k \in 1..Len(r.timers) :
                    r.timers[k].headers["content-length"] = Num(BytesOf(r.timers[k].content))
              /\ \A k \in 1..Len(r.writes) :
                    r.writes[k].headers["content-length"] = Num(BytesOf(r.writes[k].content))

\* Two requests to one handler resolved bodies of different lengths; the
\* response of the first was written after the body of the second was
\* resolved, when the handler's own headers held the length of the second.
C20_Witness ==
    /\ Len(requests) = 2
    /\ requests[1].hid # 0
    /\ requests[1].hid = requests[2].hid
    /\ LengthComputed(registered[requests[1].hid])
    /\ Len(requests[1].writes) = 1
    /\ Len(requests[2].timers) + Len(requests[2].writes) = 1
    /\ heap[requests[1].hid].reply.headers["content-length"]
          # requests[1].writes[1].headers["content-length"]

\* C19, as claimed: the callback of a stop call issued on a listening
\* instance is eventually invoked, and never more than once.
C19_StopCompletesOnce ==
    \A s \in 1..LifeStops :
        /\ (Len(stops) >= s /\ stops[s].from = "listening")
              ~> (Len(stops) >= s /\ stops[s].calls = 1)
        /\ [](Len(stops) >= s => stops[s].calls <= 1)

\* C19, amended: the callback of a stop call issued on a listening instance
\* is invoked at most once, and it is eventually invoked unless start is
\* called again before it was.
C19_StopCompletesUnlessRestarted ==
    \A s \in 1..LifeStops :
        /\ (Len(stops) >= s /\ stops[s].from = "listening")
              ~> (Len(stops) >= s
                  /\ (stops[s].calls = 1 \/ Len(starts) > stops[s].gen))
        /\ [](Len(stops) >= s => stops[s].calls <= 1)

\* A stop call issued on a listening instance that tracked two connections
\* has completed, once, after both were force-closed and reported closure.
C19_Witness ==
    \E s \in 1..Len(stops) :
        /\ stops[s].from = "listening"
        /\ stops[s].calls = 1
        /\ Len(starts) = stops[s].gen
        /\ Len(sockets) = 2
        /\ \A c \in 1..2 : sockets[c].state = "closed" /\ sockets[c].hooks = <<s>>

\* The calls made on instance i for call `call` of the facade, among `calls`.
CallsFor(calls, i, call) ==
    {x \in 1..Len(calls) : calls[x].inst = i /\ calls[x].call = call}

\* The facade's calls `done` and the instance calls `calls` made for them are
\* ordered: one call on each instance at most, the HTTPS one made after the
\* HTTP one has signalled, the facade's callback invoked once at most and
\* after both have signalled, an absent instance signalling in the call.
Ordered(calls, done) ==
    /\ \A x \in 1..Len(calls) :
          /\ calls[x].calls <= 1
          /\ ~facade.config[calls[x].inst] => calls[x].calls = 1
          /\ calls[x].inst = "https" =>
                \E y \in 1..(x - 1) :
                   /\ calls[y].inst = "http"
                   /\ calls[y].call = calls[x].call
                   /\ calls[y].calls = 1
    /\ \A c \in 1..Len(done) :
          /\ done[c] <= 1
          /\ \A i \in Instances : Cardinality(CallsFor(calls, i, c)) <= 1
          /\ Cardinality(CallsFor(calls, "http", c)) = 1
          /\ done[c] = 1 =>
                \A i \in Instances :
                   \E x \in CallsFor(calls, i, c) : calls[x].calls = 1

WillStep == Len(facade'.wills) > Len(facade.wills)

\* What an instance holds: its table, with every stored handler's fields, and
\* its tracked connections.
View(f, i) == <<TableAt(f, i), f.inst[i].connections>>

\* C12: a register call on the facade appends to the table of each instance
\* that is a server the handler the descriptor stands for, the same on both.
\* No handler of one instance holds a reply object or a headers object a
\* handler of the other holds, and a step other than a register call that
\* changes the table, a stored handler or the tracked connections of one
\* instance leaves those of the other as they are.
C12_FacadeIsolation ==
    /\ [][WillStep =>
            \A i \in Instances :
               TableAt(facade', i) =
                  IF facade.config[i]
                  THEN TableAt(facade, i)
                          \o <<WithDefaults(facade'.wills[Len(facade'.wills)])>>
                  ELSE <<>>]_vars
    /\ [](\A a \in 1..Len(facade.inst["http"].handlers),
             b \in 1..Len(facade.inst["https"].handlers) :
            LET ra == facade.inst["http"].handlers[a].reply
                rb == facade.inst["https"].handlers[b].reply
            IN  /\ ra # rb
                /\ facade.replies[ra].headers # facade.replies[rb].headers)
    /\ [][~WillStep =>
            \A i, j \in Instances :
               i # j /\ View(facade', i) # View(facade, i)
                  => View(facade', j) = View(facade, j)]_vars

\* Both instances hold the handler of one register call; the HTTP instance
\* has answered a request with it, which left the computed content-length in
\* its handler's headers and not in those of the HTTPS instance's handler.
C12_Witness ==
    /\ Len(facade.inst["http"].handlers) = 1
    /\ Len(facade.inst["https"].handlers) = 1
    /\ \E n \in 1..Len(facade.requests) :
          /\ facade.requests[n].inst = "http"
          /\ facade.requests[n].hid = 1
          /\ Len(facade.requests[n].writes) = 1
    /\ TableAt(facade, "http")[1].reply.headers["content-length"] # Undefined
    /\ TableAt(facade, "https")[1].reply.headers["content-length"] = Undefined

====
